---- MODULE Spec2Model ----
(***************************************************************************)
(* A model of BanglaWebCrawler (src/bangla_word_crawler.py): the fetcher   *)
(* with its scheme fallback, the link extractor, the keyword search, the   *)
(* per-domain crawl loop and the thread-pool orchestrator run().           *)
(*                                                                         *)
(* The web is static: every URL has one fixed response, given by the site  *)
(* profile that Init assigns to its host.  What the code leaves open is    *)
(* left open here: the interleaving of the domain tasks and the order in   *)
(* which a Python set of links is iterated.                                *)
(***************************************************************************)
EXTENDS Integers, Sequences, FiniteSets, TLC

VARIABLES
    profile,            \* the static web: host -> site profile
    max_pages_per_domain,
    max_workers,
    run,                \* "first" or "second" run of the crawler on the same web
    firstRun,           \* the worker cap and the saved rows of the first run, or NoRun
    main,               \* position of the thread executing run()
    work_queue,         \* the executor's queue of submitted, not yet started tasks
    task,               \* per domain: state of its future
    pc,                 \* per domain: position inside crawl_domain
    visited,            \* per domain: the local set visited
    to_visit,           \* per domain: the local deque to_visit
    pages_crawled,      \* per domain: the local counter
    url,                \* per domain: the URL dequeued last
    html,               \* per domain: the URL whose body fetch_page returned, or None
    matches,            \* per domain: the words still to be appended under the lock
    found_matches,      \* self.found_matches
    lock,               \* self.lock: its holder, or Free
    saved,              \* what save_results wrote, or NotSaved
    dequeued,           \* history, per domain: the number of popleft() calls
    fetchLog,           \* history, per domain: the URLs passed to fetch_page
    requests,           \* history, per domain: the GETs of the latest fetch_page call
    fetchedOk,          \* history, per domain: fetch_page calls that returned HTML
    pages,              \* history, per domain: each fetch_page call with what it returned
    events,             \* history, per domain: the GETs issued and the sleeps slept, in order
    call                \* a single extract_links call: its arguments and its outcome

vars == <<profile, max_pages_per_domain, max_workers, run, firstRun, main,
          work_queue, task, pc, visited, to_visit, pages_crawled, url, html,
          matches, found_matches, lock, saved, dequeued, fetchLog, requests,
          fetchedOk, pages, events, call>>

-----------------------------------------------------------------------------
(* Bounds of the model *)

MaxBudget == 3          \* max_pages_per_domain ranges over 0..MaxBudget
MaxWorkers == 2         \* max_workers ranges over 1..MaxWorkers
MaxAnchors == 3         \* anchors of a document handed to extract_links alone

-----------------------------------------------------------------------------
(* Inputs *)

\* The domain list handed to run(), in order.
Domains == <<"d1", "d2">>
DomainSet == {Domains[i] : i \in 1..Len(Domains)}

\* The word list: words are strings, modelled as sequences of characters.
\* A word may be listed twice: load_file_content keeps repeated lines.
W1 == <<"k">>
W2 == <<"l", "m">>
Keywords == <<W1, W2, W1>>

\* A URL string scheme://host/path, kept in its parsed form.
Url(s, h, p) == [scheme |-> s, host |-> h, path |-> p]

\* Python's None, where a URL or a page body is expected.
None == Url("", "", "")

\* The lock when no thread holds it.
Free == "Free"

\* The output file: not written, or written with the given rows.
NotSaved == [written |-> FALSE, rows |-> <<>>]
Saved(rows) == [written |-> TRUE, rows |-> rows]

\* The record kept of a finished run; NoRun before the first run has ended.
NoRun == [workers |-> 0, written |-> FALSE, rows |-> {}]

\* No extract_links call is being looked at on its own.
NoCall == [base_url |-> None, anchors |-> {}, status |-> "none", links |-> {}]

\* An href attribute.  scheme = "" is a relative reference (path and fragment
\* only); host = "[" is an unparsable authority such as "http://[".
Href(s, h, p, f) == [scheme |-> s, host |-> h, path |-> p, frag |-> f]
Rel(p) == Href("", "", p, "")
Malformed == Href("http", "[", "", "")

\* Kinds of response a server gives to a GET.
Kinds == {"html", "nonhtml", "status", "timeout", "refused"}

\* A response: its kind and, for HTML, the text nodes and anchors of the body.
Resp(k, nodes, anchors) == [kind |-> k, nodes |-> nodes, anchors |-> anchors]
Fail(k) == Resp(k, <<>>, {})

SubdomainOf(h) == IF h = "d1" THEN "www.d1" ELSE "www.d2"

-----------------------------------------------------------------------------
(* The static web: site profiles *)

\* The spec's end-to-end site: a root with a target word and one link to a
\* page without target words.
PlainSite(h, s, p) ==
    IF s # "https" THEN Fail("status")
    ELSE CASE p = ""   -> Resp("html", << <<"o", "k">> >>, {Rel("/a")})
           [] p = "/a" -> Resp("html", << <<"o">> >>, {})
           [] OTHER    -> Fail("status")

\* Pages linking to each other, with anchors that differ in fragment only, an
\* anchor to a foreign host, one to a subdomain, and a document /c that is
\* not HTML and is linked from two pages.
DiamondSite(h, s, p) ==
    IF s # "https" THEN Fail("refused")
    ELSE CASE p = ""   -> Resp("html", << <<"o">> >>,
                               {Rel("/a"), Rel("/c"), Href("", "", "/a", "top"),
                                Href("https", "other.test", "/z", ""),
                                Href("https", SubdomainOf(h), "/a", "")})
           [] p = "/a" -> Resp("html", << <<"l", "m">>, <<"k">> >>,
                               {Rel("/b"), Rel("/c"), Href("https", h, "", "")})
           [] p = "/b" -> Resp("html", << <<"l">>, <<"m">> >>,
                               {Rel("/a"), Href("https", h, "/b", "x")})
           [] p = "/c" -> Fail("nonhtml")
           [] OTHER    -> Fail("status")

\* A root linking to two leaves that hold different target words.
ForkSite(h, s, p) ==
    IF s # "https" THEN Fail("refused")
    ELSE CASE p = ""   -> Resp("html", << <<"o">> >>, {Rel("/a"), Rel("/b")})
           [] p = "/a" -> Resp("html", << <<"k">> >>, {})
           [] p = "/b" -> Resp("html", << <<"l", "m">> >>, {})
           [] OTHER    -> Fail("status")

\* A site one of whose pages carries an anchor urljoin cannot parse.
PoisonSite(h, s, p) ==
    IF s # "https" THEN Fail("timeout")
    ELSE CASE p = ""   -> Resp("html", << <<"k">> >>, {Rel("/a"), Rel("/b")})
           [] p = "/a" -> Resp("html", << <<"l", "m">> >>, {Malformed, Rel("/b")})
           [] p = "/b" -> Resp("html", << <<"k", "l", "m">> >>, {})
           [] OTHER    -> Fail("status")

\* A site whose root answers k1 over https and k2 over http; both serve the
\* same document, which links to /a and to its own http root.
FallbackSite(k1, k2, h, s, p) ==
    CASE p = ""   -> Resp(IF s = "https" THEN k1 ELSE k2, << <<"k">> >>,
                          {Rel("/a"), Href("http", h, "", "")})
      [] p = "/a" -> IF s = "https" THEN Resp("html", << <<"l", "m">> >>, {})
                     ELSE Fail("nonhtml")
      [] OTHER    -> Fail("status")

BasicProfiles == {<<"plain">>, <<"diamond">>, <<"fork">>, <<"poison">>}
FallbackProfiles == {<<"fallback", k1, k2>> : k1 \in Kinds, k2 \in Kinds}

\* The assignments of profiles to the hosts of the domain list.
Webs ==
    {[d \in DomainSet |-> IF d = Domains[1] THEN p ELSE q] :
        p \in BasicProfiles, q \in BasicProfiles}
    \cup
    {[d \in DomainSet |-> IF d = Domains[1] THEN p ELSE <<"plain">>] :
        p \in FallbackProfiles}

\* The server: the response to GET u.
Serve(u) ==
    IF u.host \notin DomainSet THEN Fail("refused")
    ELSE LET pr == profile[u.host] IN
         CASE pr[1] = "plain"    -> PlainSite(u.host, u.scheme, u.path)
           [] pr[1] = "diamond"  -> DiamondSite(u.host, u.scheme, u.path)
           [] pr[1] = "fork"     -> ForkSite(u.host, u.scheme, u.path)
           [] pr[1] = "poison"   -> PoisonSite(u.host, u.scheme, u.path)
           [] pr[1] = "fallback" -> FallbackSite(pr[2], pr[3], u.host, u.scheme, u.path)

-----------------------------------------------------------------------------
(* Fetcher: the pure parts of fetch_page *)

\* A mutation of fallback_url: the retry goes to the URL that just failed.
fallback_url_same(u) == u

\* fallback_url: the URL with its scheme replaced by 'http' if it was
\* 'https', and by 'https' otherwise.
fallback_url(u) ==
    Url(IF u.scheme = "https" THEN "http" ELSE "https", u.host, u.path)

\* A mutation of RaisesRequestException: raise_for_status is not called.
RaisesOnTransportOnly(k) == k \in {"timeout", "refused"}

\* Whether session.get / raise_for_status raises a requests.RequestException
\* for a response of kind k: a timeout, a refused connection, a non-2xx status.
RaisesRequestException(k) == k \in {"timeout", "refused", "status"}

\* Whether the Content-Type of a response of kind k contains "text/html".
IsHtmlContent(k) == k = "html"

-----------------------------------------------------------------------------
(* Extractor and keyword search *)

\* urljoin raises ValueError on an authority it cannot parse.
UrljoinRaises(a) == a.host = "["

\* urljoin(base_url, href): a relative reference takes the scheme and host
\* of the base, and its path too when it has none of its own (href="#top");
\* an absolute one stands for itself.  The fragment is kept.
urljoin(base, a) ==
    IF a.scheme = ""
    THEN Href(base.scheme, base.host, IF a.path = "" THEN base.path ELSE a.path, a.frag)
    ELSE a

\* href.split("#")[0]
StripFragment(a) == Url(a.scheme, a.host, a.path)

\* A mutation of extract_links: the host filter is missing.
extract_links_unfiltered(base_url, doc) ==
    {StripFragment(urljoin(base_url, a)) : a \in doc.anchors}

\* A mutation of extract_links: netloc.endswith(...) in place of ==, which
\* lets the subdomains through.
extract_links_subdomains(base_url, doc) ==
    {StripFragment(urljoin(base_url, a)) :
        a \in {b \in doc.anchors :
                  urljoin(base_url, b).host \in {base_url.host, SubdomainOf(base_url.host)}}}

\* extract_links: the anchors, resolved, whose netloc is the base's netloc,
\* each with its fragment removed, as a set.
extract_links(base_url, doc) ==
    {StripFragment(urljoin(base_url, a)) :
        a \in {b \in doc.anchors : urljoin(base_url, b).host = base_url.host}}

\* get_text(" ", strip=True): the text nodes joined by single spaces.
RECURSIVE get_text(_)
get_text(nodes) ==
    IF nodes = <<>> THEN <<>>
    ELSE IF Len(nodes) = 1 THEN nodes[1]
    ELSE nodes[1] \o <<" ">> \o get_text(Tail(nodes))

\* A mutation of IsSubstring: re.match, which looks at the start of the text only.
IsPrefix(word, text) ==
    Len(word) <= Len(text) /\ SubSeq(text, 1, Len(word)) = word

\* re.search(re.escape(word), text): word occurs in text as a substring.
IsSubstring(word, text) ==
    \E i \in 0..(Len(text) - Len(word)) : SubSeq(text, i + 1, i + Len(word)) = word

\* search_keywords: the keywords found in the text, in keyword order.
search_keywords(doc, keywords) ==
    LET text == get_text(doc.nodes)
        Test(w) == IsSubstring(w, text)
    IN  SelectSeq(keywords, Test)

\* The orders in which a for loop can iterate the set S.
Orders(S) ==
    {s \in [1..Cardinality(S) -> S] : \A i, j \in 1..Cardinality(S) : s[i] = s[j] => i = j}

ToSet(s) == {s[i] : i \in 1..Len(s)}

-----------------------------------------------------------------------------
(* Initial state: a crawler constructed by main(), before run() *)

\* The state shared by the tasks and the per-task locals, before any task ran.
Fresh ==
    /\ main = "submit"
    /\ work_queue = <<>>
    /\ task = [d \in DomainSet |-> "unsubmitted"]
    /\ pc = [d \in DomainSet |-> "idle"]
    /\ visited = [d \in DomainSet |-> {}]
    /\ to_visit = [d \in DomainSet |-> <<>>]
    /\ pages_crawled = [d \in DomainSet |-> 0]
    /\ url = [d \in DomainSet |-> None]
    /\ html = [d \in DomainSet |-> None]
    /\ matches = [d \in DomainSet |-> <<>>]
    /\ found_matches = <<>>
    /\ lock = Free
    /\ saved = NotSaved
    /\ dequeued = [d \in DomainSet |-> 0]
    /\ fetchLog = [d \in DomainSet |-> <<>>]
    /\ requests = [d \in DomainSet |-> <<>>]
    /\ fetchedOk = [d \in DomainSet |-> 0]
    /\ pages = [d \in DomainSet |-> <<>>]
    /\ events = [d \in DomainSet |-> <<>>]

Init ==
    /\ profile \in Webs
    /\ max_pages_per_domain \in 0..MaxBudget
    /\ max_workers \in 1..MaxWorkers
    /\ run = "first"
    /\ firstRun = NoRun
    /\ call = NoCall
    /\ Fresh

config == <<profile, max_pages_per_domain, max_workers, run, firstRun, call>>
orchestrator == <<main, work_queue, saved>>
locals == <<visited, to_visit, pages_crawled, url, html, matches>>
history == <<dequeued, fetchLog, requests, fetchedOk, pages, events>>

-----------------------------------------------------------------------------
(* Orchestrator: run() and the ThreadPoolExecutor *)

Running == {d \in DomainSet : task[d] = "running"}
Terminated(d) == task[d] \in {"done", "failed"}

\* A mutation of CanStart: one worker thread too many.
CanStartOffByOne == Cardinality(Running) <= max_workers

\* A worker thread is free: the pool never has more than max_workers threads,
\* and each thread runs one task at a time.
CanStart == Cardinality(Running) < max_workers

\* A mutation of ExecutorJoined: shutdown(wait=False).
ExecutorNotJoined == TRUE

\* Leaving the with block calls shutdown(wait=True), which returns once every
\* worker thread has run out of work.
ExecutorJoined == \A d \in DomainSet : Terminated(d)

\* executor.submit(self.crawl_domain, domain, words), for the domains in order.
Submit ==
    /\ main = "submit"
    /\ \E i \in 1..Len(Domains) :
        /\ task[Domains[i]] = "unsubmitted"
        /\ \A j \in 1..(i - 1) : task[Domains[j]] # "unsubmitted"
        /\ task' = [task EXCEPT ![Domains[i]] = "queued"]
        /\ work_queue' = Append(work_queue, Domains[i])
        /\ main' = IF i = Len(Domains) THEN "as_completed" ELSE "submit"
    /\ UNCHANGED <<config, saved, pc, locals, found_matches, lock, history>>

\* A worker thread takes the next work item and enters crawl_domain.
StartTask(d) ==
    /\ work_queue # <<>>
    /\ d = Head(work_queue)
    /\ CanStart
    /\ work_queue' = Tail(work_queue)
    /\ task' = [task EXCEPT ![d] = "running"]
    /\ pc' = [pc EXCEPT ![d] = "loop"]
    /\ visited' = [visited EXCEPT ![d] = {}]
    /\ to_visit' = [to_visit EXCEPT ![d] = <<Url("https", d, "")>>]
    /\ pages_crawled' = [pages_crawled EXCEPT ![d] = 0]
    /\ UNCHANGED <<config, main, saved, url, html, matches, found_matches, lock, history>>

\* future.result() re-raises the exception of a failed task: the for loop
\* is left and the with block is exited with the exception pending.
ResultRaises ==
    /\ main = "as_completed"
    /\ \E d \in DomainSet : task[d] = "failed"
    /\ main' = "exit_raising"
    /\ UNCHANGED <<config, work_queue, saved, task, pc, locals, found_matches, lock, history>>

\* as_completed has yielded every future and none had failed.
AllCompleted ==
    /\ main = "as_completed"
    /\ \A d \in DomainSet : task[d] = "done"
    /\ main' = "exit"
    /\ UNCHANGED <<config, work_queue, saved, task, pc, locals, found_matches, lock, history>>

\* ThreadPoolExecutor.__exit__: wait for the workers, then go on to
\* save_results or let the pending exception leave run().
ExecutorExit ==
    /\ main \in {"exit", "exit_raising"}
    /\ ExecutorJoined
    /\ main' = IF main = "exit" THEN "save" ELSE "raised"
    /\ UNCHANGED <<config, work_queue, saved, task, pc, locals, found_matches, lock, history>>

\* save_results(output_file): the rows written are self.found_matches.
SaveResults ==
    /\ main = "save"
    /\ saved' = Saved(found_matches)
    /\ main' = "returned"
    /\ UNCHANGED <<config, work_queue, task, pc, locals, found_matches, lock, history>>

\* The program is run once more against the same web with the same word
\* list, domain list and page budget, and some worker cap.
Rerun ==
    /\ main \in {"returned", "raised"}
    /\ run = "first"
    /\ run' = "second"
    /\ firstRun' = [workers |-> max_workers, written |-> saved.written,
                    rows |-> ToSet(saved.rows)]
    /\ max_workers' \in 1..MaxWorkers
    /\ UNCHANGED <<profile, max_pages_per_domain, call>>
    /\ main' = "submit"
    /\ work_queue' = <<>>
    /\ task' = [d \in DomainSet |-> "unsubmitted"]
    /\ pc' = [d \in DomainSet |-> "idle"]
    /\ visited' = [d \in DomainSet |-> {}]
    /\ to_visit' = [d \in DomainSet |-> <<>>]
    /\ pages_crawled' = [d \in DomainSet |-> 0]
    /\ url' = [d \in DomainSet |-> None]
    /\ html' = [d \in DomainSet |-> None]
    /\ matches' = [d \in DomainSet |-> <<>>]
    /\ found_matches' = <<>>
    /\ lock' = Free
    /\ saved' = NotSaved
    /\ dequeued' = [d \in DomainSet |-> 0]
    /\ fetchLog' = [d \in DomainSet |-> <<>>]
    /\ requests' = [d \in DomainSet |-> <<>>]
    /\ fetchedOk' = [d \in DomainSet |-> 0]
    /\ pages' = [d \in DomainSet |-> <<>>]
    /\ events' = [d \in DomainSet |-> <<>>]

-----------------------------------------------------------------------------
(* Domain crawl loop: crawl_domain, with fetch_page inlined at its call *)

\* A mutation of LoopCond: the budget test is off by one.
LoopCondOffByOne(d) ==
    to_visit[d] # <<>> /\ pages_crawled[d] <= max_pages_per_domain

\* while to_visit and pages_crawled < self.max_pages_per_domain
LoopCond(d) ==
    to_visit[d] # <<>> /\ pages_crawled[d] < max_pages_per_domain

\* A mutation of AlreadyVisited: the check at dequeue time is missing.
NeverVisited(d, u) == FALSE

\* if url in visited
AlreadyVisited(d, u) == u \in visited[d]

\* The document fetch_page returned to task d.
Document(d) == Serve(html[d])

\* The loop condition is false: the task logs its end and returns.
Exhausted(d) ==
    /\ task[d] = "running" /\ pc[d] = "loop"
    /\ ~LoopCond(d)
    /\ task' = [task EXCEPT ![d] = "done"]
    /\ pc' = [pc EXCEPT ![d] = "finished"]
    /\ UNCHANGED <<config, orchestrator, locals, found_matches, lock, history>>

\* popleft() yields a URL that is in visited: continue.
DequeueVisited(d) ==
    /\ task[d] = "running" /\ pc[d] = "loop"
    /\ LoopCond(d)
    /\ AlreadyVisited(d, Head(to_visit[d]))
    /\ url' = [url EXCEPT ![d] = Head(to_visit[d])]
    /\ to_visit' = [to_visit EXCEPT ![d] = Tail(to_visit[d])]
    /\ dequeued' = [dequeued EXCEPT ![d] = @ + 1]
    /\ UNCHANGED <<config, orchestrator, task, pc, visited, pages_crawled, html,
                   matches, found_matches, lock, fetchLog, requests, fetchedOk,
                   pages, events>>

\* popleft() yields a new URL: it is added to visited and fetch_page is called.
DequeueNew(d) ==
    /\ task[d] = "running" /\ pc[d] = "loop"
    /\ LoopCond(d)
    /\ ~AlreadyVisited(d, Head(to_visit[d]))
    /\ url' = [url EXCEPT ![d] = Head(to_visit[d])]
    /\ to_visit' = [to_visit EXCEPT ![d] = Tail(to_visit[d])]
    /\ visited' = [visited EXCEPT ![d] = @ \cup {Head(to_visit[d])}]
    /\ html' = [html EXCEPT ![d] = None]
    /\ dequeued' = [dequeued EXCEPT ![d] = @ + 1]
    /\ fetchLog' = [fetchLog EXCEPT ![d] = Append(@, Head(to_visit[d]))]
    /\ requests' = [requests EXCEPT ![d] = <<>>]
    /\ pc' = [pc EXCEPT ![d] = "get"]
    /\ UNCHANGED <<config, orchestrator, task, pages_crawled, matches,
                   found_matches, lock, fetchedOk, pages, events>>

\* The outcome of one GET of u inside fetch_page, called by task d:
\* a RequestException leads to onError, an HTML response is returned, and
\* anything else falls through to return None, on which the loop continues.
Get(d, u, onError) ==
    LET k == Serve(u).kind IN
    /\ requests' = [requests EXCEPT ![d] = Append(@, [url |-> u, kind |-> k])]
    /\ events' = [events EXCEPT ![d] = Append(@, "get")]
    /\ IF RaisesRequestException(k)
       THEN /\ pc' = [pc EXCEPT ![d] = onError]
            /\ pages' = IF onError = "loop"
                        THEN [pages EXCEPT ![d] = Append(@, [url |-> url[d], body |-> None])]
                        ELSE pages
            /\ UNCHANGED <<html, fetchedOk>>
       ELSE IF IsHtmlContent(k)
       THEN /\ pc' = [pc EXCEPT ![d] = "search"]
            /\ html' = [html EXCEPT ![d] = u]
            /\ fetchedOk' = [fetchedOk EXCEPT ![d] = @ + 1]
            /\ pages' = [pages EXCEPT ![d] = Append(@, [url |-> url[d], body |-> u])]
       ELSE /\ pc' = [pc EXCEPT ![d] = "loop"]
            /\ pages' = [pages EXCEPT ![d] = Append(@, [url |-> url[d], body |-> None])]
            /\ UNCHANGED <<html, fetchedOk>>
    /\ UNCHANGED <<config, orchestrator, task, visited, to_visit, pages_crawled,
                   url, matches, found_matches, lock, dequeued, fetchLog>>

\* fetch_page: the first request, to the URL itself.
GetFirst(d) ==
    /\ task[d] = "running" /\ pc[d] = "get"
    /\ Get(d, url[d], "get_fallback")

\* fetch_page: the request to the fallback URL; if it fails too, None.
GetFallback(d) ==
    /\ task[d] = "running" /\ pc[d] = "get_fallback"
    /\ Get(d, fallback_url(url[d]), "loop")

\* matches = self.search_keywords(html, keywords)
SearchKeywords(d) ==
    /\ task[d] = "running" /\ pc[d] = "search"
    /\ LET m == search_keywords(Document(d), Keywords) IN
        /\ matches' = [matches EXCEPT ![d] = m]
        /\ pc' = [pc EXCEPT ![d] = IF m = <<>> THEN "links" ELSE "lock"]
    /\ UNCHANGED <<config, orchestrator, task, visited, to_visit, pages_crawled,
                   url, html, found_matches, lock, history>>

\* A mutation of AcquireLock: the block is entered without waiting for the lock.
AcquireLockUnguarded(d) ==
    /\ task[d] = "running" /\ pc[d] = "lock"
    /\ lock' = d
    /\ pc' = [pc EXCEPT ![d] = "append"]
    /\ UNCHANGED <<config, orchestrator, task, locals, found_matches, history>>

\* with self.lock: entered
AcquireLock(d) ==
    /\ task[d] = "running" /\ pc[d] = "lock"
    /\ lock = Free
    /\ lock' = d
    /\ pc' = [pc EXCEPT ![d] = "append"]
    /\ UNCHANGED <<config, orchestrator, task, locals, found_matches, history>>

\* self.found_matches.append({"URL": url, "Matched Word": word})
AppendMatch(d) ==
    /\ task[d] = "running" /\ pc[d] = "append"
    /\ matches[d] # <<>>
    /\ found_matches' = Append(found_matches, [URL |-> url[d], Word |-> Head(matches[d])])
    /\ matches' = [matches EXCEPT ![d] = Tail(@)]
    /\ UNCHANGED <<config, orchestrator, task, pc, visited, to_visit, pages_crawled,
                   url, html, lock, history>>

\* A mutation of ReleaseLock: the block is left without releasing the lock.
ReleaseLockKept(d) ==
    /\ task[d] = "running" /\ pc[d] = "append"
    /\ matches[d] = <<>>
    /\ pc' = [pc EXCEPT ![d] = "links"]
    /\ UNCHANGED <<config, orchestrator, task, locals, found_matches, lock, history>>

\* with self.lock: left
ReleaseLock(d) ==
    /\ task[d] = "running" /\ pc[d] = "append"
    /\ matches[d] = <<>>
    /\ lock' = Free
    /\ pc' = [pc EXCEPT ![d] = "links"]
    /\ UNCHANGED <<config, orchestrator, task, locals, found_matches, history>>

\* extract_links raises ValueError out of urljoin: nothing in crawl_domain
\* catches it, so the task ends with the exception set on its future.
ExtractLinksRaises(d) ==
    /\ task[d] = "running" /\ pc[d] = "links"
    /\ \E a \in Document(d).anchors : UrljoinRaises(a)
    /\ task' = [task EXCEPT ![d] = "failed"]
    /\ pc' = [pc EXCEPT ![d] = "raised"]
    /\ UNCHANGED <<config, orchestrator, locals, found_matches, lock, history>>

\* A mutation of Enqueue: appendleft instead of append.
EnqueueFront(queue, links) == links \o queue

\* to_visit.append(link), for the links in the order given
Enqueue(queue, links) == queue \o links

\* A mutation of LinkBase: the URL the body came from is taken as the base.
LinkBaseFetched(d) == html[d]

\* The base URL handed to extract_links: the URL that was dequeued.
LinkBase(d) == url[d]

\* new_links = extract_links(url, html); each link not in visited is
\* appended to to_visit, in the iteration order of the set; pages_crawled += 1.
EnqueueLinks(d) ==
    /\ task[d] = "running" /\ pc[d] = "links"
    /\ \A a \in Document(d).anchors : ~UrljoinRaises(a)
    /\ LET new_links == extract_links(LinkBase(d), Document(d)) IN
       \E order \in Orders({l \in new_links : l \notin visited[d]}) :
           to_visit' = [to_visit EXCEPT ![d] = Enqueue(@, order)]
    /\ pages_crawled' = [pages_crawled EXCEPT ![d] = @ + 1]
    /\ pc' = [pc EXCEPT ![d] = "sleep"]
    /\ UNCHANGED <<config, orchestrator, task, visited, url, html, matches,
                   found_matches, lock, history>>

\* time.sleep(self.delay)
Sleep(d) ==
    /\ task[d] = "running" /\ pc[d] = "sleep"
    /\ pc' = [pc EXCEPT ![d] = "loop"]
    /\ events' = [events EXCEPT ![d] = Append(@, "sleep")]
    /\ UNCHANGED <<config, orchestrator, task, locals, found_matches, lock,
                   dequeued, fetchLog, requests, fetchedOk, pages>>

-----------------------------------------------------------------------------
(* Specifications *)

Crawl(d) ==
    \/ Exhausted(d)
    \/ DequeueVisited(d)
    \/ DequeueNew(d)
    \/ GetFirst(d)
    \/ GetFallback(d)
    \/ SearchKeywords(d)
    \/ AcquireLock(d)
    \/ AppendMatch(d)
    \/ ReleaseLock(d)
    \/ ExtractLinksRaises(d)
    \/ EnqueueLinks(d)
    \/ Sleep(d)

\* The steps of one run of the program.
SingleRun ==
    \/ Submit
    \/ \E d \in DomainSet : StartTask(d)
    \/ \E d \in DomainSet : Crawl(d)
    \/ ResultRaises
    \/ AllCompleted
    \/ ExecutorExit
    \/ SaveResults

Next == SingleRun \/ Rerun

Spec == Init /\ [][Next]_vars

\* One run under fair scheduling: the threads of the pool and the main thread
\* are scheduled by the operating system, so a step that stays possible is
\* eventually taken.
FairSpec ==
    /\ Init
    /\ [][SingleRun]_vars
    /\ WF_vars(Submit \/ ResultRaises \/ AllCompleted \/ ExecutorExit \/ SaveResults)
    /\ \A d \in DomainSet : WF_vars(StartTask(d)) /\ WF_vars(Crawl(d))

-----------------------------------------------------------------------------
(* Properties *)

\* The URL passed to the latest fetch_page call of task d.
LastFetched(d) == fetchLog[d][Len(fetchLog[d])]

\* fetch_page of task d has been called and has returned.
FetchReturned(d) == requests[d] # <<>> /\ pc[d] \notin {"get", "get_fallback"}

\* v is u with its scheme toggled between https and http.
IsToggled(u, v) ==
    /\ v.host = u.host /\ v.path = u.path
    /\ {u.scheme, v.scheme} = {"https", "http"}

\* C1: within one crawl_domain call no URL is passed to fetch_page more than
\* once, whatever the fetches return and however often the URL was enqueued.
C1_FetchedAtMostOnce ==
    \A d \in DomainSet : \A i, j \in 1..Len(fetchLog[d]) :
        fetchLog[d][i] = fetchLog[d][j] => i = j

\* C1 witness: a URL that was fetched before has been dequeued once more
\* (more popleft calls than fetches) and the crawl has gone on to its end.
C1_Witness ==
    \E d \in DomainSet :
        /\ task[d] = "done"
        /\ dequeued[d] > Len(fetchLog[d])
        /\ Len(fetchLog[d]) >= 3

C3_FailureIsolated ==
    (main \in {"returned", "raised"} /\ \E d \in DomainSet : task[d] = "failed")
        => /\ \A d \in DomainSet : task[d] # "failed" => task[d] = "done"
           /\ saved.written
           /\ saved.rows = found_matches

\* C4: save_results reads the collection, and run() ends, only when every
\* dispatched domain task has terminated.
C4_ReadAfterAllTasks ==
    main \in {"save", "returned", "raised"} => \A d \in DomainSet : Terminated(d)

\* C4 witness: run() has returned rows that two concurrently admitted domains
\* appended.
C4_Witness ==
    /\ main = "returned"
    /\ max_workers >= 2
    /\ \A d \in DomainSet : \E i \in 1..Len(saved.rows) : saved.rows[i].URL.host = d

\* The domains whose task has been started by a worker.
Started == {d \in DomainSet : task[d] \in {"running", "done", "failed"}}

\* C5: at most max_workers domains crawl at a time; a domain beyond the cap
\* starts only once a running one has finished; every dispatched domain is
\* eventually started.
C5_BoundedPool ==
    /\ [](Cardinality(Running) <= max_workers)
    /\ [][\A d \in DomainSet :
            (task[d] = "queued" /\ task'[d] = "running"
                /\ Cardinality(Started) >= max_workers)
            => \E e \in DomainSet : Terminated(e)]_vars
    /\ \A d \in DomainSet : (task[d] = "queued") ~> (d \in Started)

\* C5 witness: with one worker, the second domain runs after the first ended.
C5_Witness ==
    /\ max_workers = 1
    /\ Terminated(Domains[1])
    /\ task[Domains[2]] = "running"

\* C6: a fetch_page call makes at most two requests, the first to its URL; a
\* second one is made exactly when the first raised (transport failure or
\* non-2xx), and goes to the same URL with the scheme toggled; if that fails
\* too, the call returns None and the task is not failed by it.
C6_SingleSchemeFallback ==
    \A d \in DomainSet :
        LET r == requests[d] IN
        /\ Len(r) <= 2
        /\ Len(r) >= 1 => r[1].url = LastFetched(d)
        /\ FetchReturned(d) =>
            (Len(r) = 2 <=> r[1].kind \in {"timeout", "refused", "status"})
        /\ Len(r) = 2 => IsToggled(r[1].url, r[2].url)
        /\ (FetchReturned(d) /\ Len(r) = 2 /\ r[2].kind # "html") =>
            (html[d] = None /\ task[d] # "failed")

\* C6 witness: both requests of a call failed and the loop went on.
C6_Witness ==
    \E d \in DomainSet :
        /\ Len(requests[d]) = 2
        /\ requests[d][1].kind = "timeout"
        /\ requests[d][2].kind = "status"
        /\ pc[d] = "loop"

\* C7 as claimed: whatever the transient error of the first request (timeout,
\* refused connection, non-2xx status, non-HTML content), the scheme-toggled
\* URL has been requested once when fetch_page returns.
C7_EveryErrorFallsBack ==
    \A d \in DomainSet :
        LET r == requests[d] IN
        (FetchReturned(d) /\ r[1].kind \in {"timeout", "refused", "status", "nonhtml"})
            => (Len(r) = 2 /\ IsToggled(r[1].url, r[2].url))

\* C7 amended: a timeout, a refused connection and a non-2xx status of the
\* first request are each followed by one request to the scheme-toggled URL;
\* non-HTML content is not: the call returns None after its single request.
C7_RaisedErrorsFallBack ==
    \A d \in DomainSet :
        LET r == requests[d] IN
        FetchReturned(d) =>
            /\ r[1].kind \in {"timeout", "refused", "status"}
                => (Len(r) = 2 /\ IsToggled(r[1].url, r[2].url))
            /\ r[1].kind = "nonhtml" => (Len(r) = 1 /\ html[d] = None)

\* C7 witness: a first response that is not HTML, while the scheme-toggled URL
\* would have served HTML; the call has returned.
C7_Witness ==
    \E d \in DomainSet :
        /\ FetchReturned(d)
        /\ requests[d][1].kind = "nonhtml"
        /\ Serve(fallback_url(requests[d][1].url)).kind = "html"

\* C8: an error raised while a page is processed never ends the domain's
\* crawl loop: no task is ever failed by it.
C8_PageErrorDoesNotAbort ==
    \A d \in DomainSet :
        (html[d] # None /\ \E a \in Document(d).anchors : UrljoinRaises(a))
            => task[d] # "failed"

\* C9: a run with worker cap 1 and a run with worker cap N (the number of
\* domains) against the same web save the same set of Match Records.
C9_SameSetForCap1AndCapN ==
    (/\ run = "second" /\ main = "returned"
     /\ firstRun.written
     /\ firstRun.workers = 1 /\ max_workers = Len(Domains))
        => ToSet(saved.rows) = firstRun.rows

\* C10: two runs with the same configuration against the same web save the
\* same set of Match Records, whatever the page budget.
C10_Idempotent ==
    (/\ run = "second" /\ main = "returned"
     /\ firstRun.written
     /\ firstRun.workers = max_workers)
        => ToSet(saved.rows) = firstRun.rows

-----------------------------------------------------------------------------
(* extract_links on its own *)

\* The base URLs of the calls: a root, a page over http, a page of a subdomain.
Bases == {Url("https", "d1", ""), Url("http", "d1", "/a"), Url("https", "www.d1", "/a")}

\* The href attributes the documents are made of: relative ones, one that
\* is a fragment only, absolute ones to the host, to a subdomain of it and to
\* a foreign host, and one urljoin cannot parse.
AnchorPool ==
    {Rel("/b"), Href("", "", "/b", "x"), Href("", "", "", "top"),
     Href("https", "d1", "/c", ""), Href("http", "d1", "/c", "y"),
     Href("https", "www.d1", "/b", ""), Href("https", "other.test", "/b", ""),
     Malformed}

\* The calls: a base URL and a document with at most MaxAnchors anchors.
Calls ==
    {[base_url |-> b, anchors |-> A, status |-> "pending", links |-> {}] :
        b \in Bases, A \in {X \in SUBSET AnchorPool : Cardinality(X) <= MaxAnchors}}

LinksInit ==
    /\ profile = [d \in DomainSet |-> <<"plain">>]
    /\ max_pages_per_domain = 0
    /\ max_workers = 1
    /\ run = "first"
    /\ firstRun = NoRun
    /\ call \in Calls
    /\ Fresh

\* extract_links returns the set it has built.
CallReturns ==
    /\ call.status = "pending"
    /\ \A a \in call.anchors : ~UrljoinRaises(a)
    /\ call' = [call EXCEPT !.status = "returned",
                            !.links = extract_links(call.base_url,
                                                    Resp("html", <<>>, call.anchors))]
    /\ UNCHANGED <<profile, max_pages_per_domain, max_workers, run, firstRun,
                   orchestrator, task, pc, locals, found_matches, lock, history>>

\* urljoin raises on one of the anchors and extract_links returns nothing.
CallRaises ==
    /\ call.status = "pending"
    /\ \E a \in call.anchors : UrljoinRaises(a)
    /\ call' = [call EXCEPT !.status = "raised"]
    /\ UNCHANGED <<profile, max_pages_per_domain, max_workers, run, firstRun,
                   orchestrator, task, pc, locals, found_matches, lock, history>>

LinksNext == CallReturns \/ CallRaises

LinksSpec == LinksInit /\ [][LinksNext]_vars

-----------------------------------------------------------------------------
(* Breadth-first order *)

\* The fetch_page calls of d's crawl that returned HTML, in call order.
HtmlPages(d) ==
    LET IsHtml(pg) == pg.body # None IN SelectSeq(pages[d], IsHtml)

\* The pages d's crawl has processed to the end of the loop body.
Processed(d) == SubSeq(HtmlPages(d), 1, pages_crawled[d])

\* The links of the processed pages, as edges from page to target.
LinkEdges(d) ==
    UNION {{<<pg.url, l>> : l \in extract_links(pg.url, Serve(pg.body))} :
              pg \in ToSet(Processed(d))}

Root(d) == Url("https", d, "")

\* The number of edges of E on a shortest path from a page of frontier to u;
\* more than any such number when there is no path.
RECURSIVE Depth(_, _, _, _)
Depth(E, frontier, seen, u) ==
    IF u \in frontier THEN 0
    ELSE IF frontier = {} THEN Cardinality(E) + 1
    ELSE LET reached == seen \cup frontier
             next == {e[2] : e \in {x \in E : x[1] \in frontier}} \ reached
         IN  1 + Depth(E, next, reached, u)

\* The link distance from the root of d, over the processed pages, of every
\* page d's crawl knows of.
Distance(d) ==
    LET E == LinkEdges(d) IN
    [u \in {Root(d)} \cup {e[2] : e \in E} |-> Depth(E, {Root(d)}, {}, u)]

\* C11: within one domain the records of a page nearer to the root (in link
\* distance over the processed pages) all precede the records of a page
\* farther from it, and a page is dequeued only after every discovered page
\* of smaller distance has been dequeued.
C11_BreadthFirstOrder ==
    \A d \in DomainSet :
        LET dist == Distance(d) IN
        /\ ToSet(fetchLog[d]) \subseteq DOMAIN dist
        /\ \A i, j \in 1..Len(found_matches) :
               LET p == found_matches[i].URL
                   q == found_matches[j].URL
               IN  /\ p.host = d
                   /\ q.host = d
                   /\ dist[p] < dist[q]
                   => i < j
        /\ \A j \in 1..Len(fetchLog[d]) :
               \A p \in DOMAIN dist :
                   dist[p] < dist[fetchLog[d][j]]
                   => \E i \in 1..(j - 1) : fetchLog[d][i] = p

\* Records of two pages at different distances are in the collection, and a
\* page two links away from its root has been dequeued while a page at
\* distance one is known.
C11_Witness ==
    /\ \E d \in DomainSet :
           \E i, j \in 1..Len(found_matches) :
               /\ found_matches[i].URL.host = d
               /\ found_matches[j].URL.host = d
               /\ Distance(d)[found_matches[i].URL] < Distance(d)[found_matches[j].URL]
    /\ \E d \in DomainSet :
           \E j \in 1..Len(fetchLog[d]) : Distance(d)[fetchLog[d][j]] = 2

-----------------------------------------------------------------------------
(* Politeness delay *)

\* C12: between any two successive requests made for one domain the
\* politeness delay is slept: no two GETs of one crawl follow each other
\* without a sleep in between.
C12_DelayBetweenFetches ==
    \A d \in DomainSet :
        \A i \in 1..(Len(events[d]) - 1) :
            ~(events[d][i] = "get" /\ events[d][i + 1] = "get")

-----------------------------------------------------------------------------
(* Link extraction *)

\* C13: what extract_links returns is exactly the set of the anchor targets,
\* resolved against the base URL and without their fragment, whose host is
\* the host of the base URL; no element has another host or a subdomain of
\* it, and no element carries a fragment, so that anchors differing in the
\* fragment only give one element.
C13_SameHostLinksOnly ==
    call.status = "returned" =>
        LET base == call.base_url
            targets == {StripFragment(urljoin(base, a)) : a \in call.anchors}
        IN  /\ call.links = {t \in targets : t.host = base.host}
            /\ \A l \in call.links :
                   /\ l.host = base.host
                   /\ DOMAIN l = {"scheme", "host", "path"}

\* A call has returned one link for a document with two anchors to one page
\* that differ in the fragment only and an anchor to another host.
C13_Witness ==
    /\ call.status = "returned"
    /\ Cardinality(call.links) = 1
    /\ \E a, b \in call.anchors :
           /\ a.frag # b.frag
           /\ StripFragment(urljoin(call.base_url, a)) = StripFragment(urljoin(call.base_url, b))
    /\ \E a \in call.anchors : a.scheme # "" /\ a.host # call.base_url.host

-----------------------------------------------------------------------------
(* The pages-processed counter *)

\* The number of sleeps task d has slept.
Sleeps(d) ==
    LET IsSleep(e) == e = "sleep" IN Len(SelectSeq(events[d], IsSleep))

\* Task d is between two iterations of its loop, or has left the loop.
BetweenIterations(d) == pc[d] \in {"loop", "finished", "raised"}

\* The steps of one run change pages_crawled only at the end of the
\* processing of a page, by one, and the sleep follows; a dequeued URL that
\* is in visited, and a fetch that returns None, change neither the counter
\* nor the records nor the frontier (but for the dequeued entry), and the URL
\* of the absent page is in visited.
CounterFrame ==
    [][run' = run =>
        \A d \in DomainSet :
            /\ pages_crawled'[d] # pages_crawled[d] =>
                   /\ pc[d] = "links" /\ html[d] # None
                   /\ pages_crawled'[d] = pages_crawled[d] + 1
                   /\ pc'[d] = "sleep"
            /\ events'[d] # events[d] /\ events'[d][Len(events'[d])] = "sleep" =>
                   pc[d] = "sleep" /\ pc'[d] = "loop"
            /\ pc[d] = "sleep" /\ pc'[d] # "sleep" =>
                   events'[d] = Append(events[d], "sleep")
            /\ dequeued'[d] # dequeued[d] /\ Head(to_visit[d]) \in visited[d] =>
                   /\ pages_crawled'[d] = pages_crawled[d]
                   /\ found_matches' = found_matches
                   /\ visited'[d] = visited[d]
                   /\ to_visit'[d] = Tail(to_visit[d])
                   /\ pc'[d] = "loop"
            /\ pc[d] \in {"get", "get_fallback"} /\ pc'[d] = "loop" =>
                   /\ pages_crawled'[d] = pages_crawled[d]
                   /\ found_matches' = found_matches
                   /\ to_visit'[d] = to_visit[d]
                   /\ url[d] \in visited'[d]
    ]_vars

\* C14: the counter is raised by exactly one for every page whose fetch
\* returned HTML, and exactly one sleep follows, whether or not the page had
\* matches: between two iterations, and after the loop, the counter and the
\* number of sleeps both equal the number of fetches that returned HTML.
C14_OneChargeAndSleepPerHtmlPage ==
    \A d \in DomainSet :
        BetweenIterations(d) =>
            /\ pages_crawled[d] = fetchedOk[d]
            /\ Sleeps(d) = fetchedOk[d]

\* C14 for the tasks that have not raised.
C14_UnlessRaised ==
    \A d \in DomainSet :
        BetweenIterations(d) /\ pc[d] # "raised" =>
            /\ pages_crawled[d] = fetchedOk[d]
            /\ Sleeps(d) = fetchedOk[d]

-----------------------------------------------------------------------------
(* Termination *)

\* The loop of task d has ended because its condition is false: the frontier
\* is empty or the budget is reached.
ReachedExhausted(d) == pc[d] = "finished" /\ ~LoopCond(d)

\* C15: on every site, with every pattern of fetch failures and every
\* budget, the crawl loop of every domain eventually ends with its frontier
\* empty or its budget reached, and stays there: a task whose loop has ended
\* takes no step, so it fetches, appends and enqueues nothing afterwards.
C15_EveryLoopReachesExhausted ==
    \A d \in DomainSet : <>[]ReachedExhausted(d)

\* C15 for the domains whose site has no anchor urljoin cannot parse.
C15_UnlessRaised ==
    \A d \in DomainSet :
        profile[d][1] # "poison" => <>[]ReachedExhausted(d)

-----------------------------------------------------------------------------
(* Match records *)

\* The text t can be cut into a part before, the word w, and a part after.
Occurs(w, t) ==
    \E i \in 0..Len(t) : \E j \in (i + 1)..(Len(t) + 1) :
        SubSeq(t, 1, i) \o w \o SubSeq(t, j, Len(t)) = t

\* The words of the records with URL u, in the order of the collection.
RecordedWords(u) ==
    LET Of(r) == r.URL = u
        recs == SelectSeq(found_matches, Of)
    IN  [i \in 1..Len(recs) |-> recs[i].Word]

\* The words the records of a page with the given body must carry: none for
\* an absent page, else the words of the list, position by position, that
\* occur in the text of the body.
ExpectedWords(body) ==
    IF body = None THEN <<>>
    ELSE LET text == get_text(Serve(body).nodes)
             In(w) == Occurs(w, text)
         IN  SelectSeq(Keywords, In)

\* C16: the records of a page processed with an HTML result are exactly
\* the pairs (URL of the page, w) for the words w of the list that occur as
\* a substring in the text of the page, one for each position of the list
\* and in the order of the list; a page whose fetch was absent has no
\* record, and no record belongs to a URL without a fetch that returned.
C16_RecordsAreTheWordsOfThePage ==
    \A d \in DomainSet :
        /\ \A n \in 1..Len(pages[d]) :
               LET pg == pages[d][n]
                   current == n = Len(pages[d])
               IN  IF current /\ pc[d] \in {"search", "lock"}
                   THEN RecordedWords(pg.url) = <<>>
                   ELSE IF current /\ pc[d] = "append"
                   THEN RecordedWords(pg.url) \o matches[d] = ExpectedWords(pg.body)
                   ELSE RecordedWords(pg.url) = ExpectedWords(pg.body)
        /\ \A i \in 1..Len(found_matches) :
               found_matches[i].URL.host = d =>
                   \E n \in 1..Len(pages[d]) :
                       /\ pages[d][n].url = found_matches[i].URL
                       /\ pages[d][n].body # None

\* A page whose text holds a word listed twice and another word has its
\* three records, a page whose text holds the letters of a word in two
\* separate nodes has none, and a page whose fetch was absent has none.
C16_Witness ==
    \E d \in DomainSet :
        /\ pc[d] = "finished"
        /\ \E n \in 1..Len(pages[d]) :
               RecordedWords(pages[d][n].url) = <<W1, W2, W1>>
        /\ \E n \in 1..Len(pages[d]) :
               /\ pages[d][n].body # None
               /\ Serve(pages[d][n].body).nodes = << <<"l">>, <<"m">> >>
               /\ RecordedWords(pages[d][n].url) = <<>>
        /\ \E n \in 1..Len(pages[d]) : pages[d][n].body = None

-----------------------------------------------------------------------------
(* The lock *)

\* The run is over: run() has returned or has raised.
RunOver == main \in {"returned", "raised"}

\* C17: a task holds the lock only while it appends its records, never
\* while it is inside fetch_page or in the sleep; a task that waits for the
\* lock eventually holds it; and as long as the run is not over some thread
\* can take a step.
C17_LockHeldOnlyToAppend ==
    /\ [](\A d \in DomainSet : lock = d => pc[d] = "append")
    /\ [](\A d \in DomainSet :
              pc[d] \in {"get", "get_fallback", "sleep"} => lock # d)
    /\ \A d \in DomainSet : (pc[d] = "lock") ~> (lock = d)
    /\ [](RunOver \/ ENABLED SingleRun)

\* One task holds the lock while another waits for it.
C17_Witness ==
    \E d, e \in DomainSet :
        /\ lock = d /\ pc[d] = "append"
        /\ pc[e] = "lock"

-----------------------------------------------------------------------------
(* Domain confinement *)

\* Every URL the crawl of d holds or has requested has host d.
Confined(d) ==
    /\ \A i \in 1..Len(to_visit[d]) : to_visit[d][i].host = d
    /\ \A u \in visited[d] : u.host = d
    /\ \A i \in 1..Len(fetchLog[d]) : fetchLog[d][i].host = d
    /\ \A i \in 1..Len(requests[d]) : requests[d][i].url.host = d

\* C18: the frontier of a domain starts as the one URL https://<domain>;
\* from then on every URL in its frontier and in its visited set, every URL
\* it requests, and the URL of every record it appends has the domain as
\* its host.
C18_DomainConfinement ==
    /\ [](\A d \in DomainSet : Confined(d))
    /\ [][\A d \in DomainSet :
              /\ task[d] = "queued" /\ task'[d] = "running" =>
                     to_visit'[d] = <<Url("https", d, "")>> /\ visited'[d] = {}
              /\ lock = d /\ found_matches' # found_matches /\ run' = run =>
                     found_matches'[Len(found_matches')].URL.host = d
         ]_vars

\* A crawl has processed a page with anchors to a foreign host and to a
\* subdomain, has appended records and still has URLs in its frontier.
C18_Witness ==
    \E d \in DomainSet :
        /\ \E n \in 1..Len(pages[d]) :
               /\ pages[d][n].body # None
               /\ n <= pages_crawled[d]
               /\ \E a \in Serve(pages[d][n].body).anchors :
                      a.host = "other.test"
               /\ \E a \in Serve(pages[d][n].body).anchors :
                      a.host = SubdomainOf(d)
        /\ \E i \in 1..Len(found_matches) : found_matches[i].URL.host = d
        /\ to_visit[d] # <<>>

-----------------------------------------------------------------------------
(* Records of one page *)

\* C19: the records of one page are at consecutive positions of the
\* collection: between two records with the same URL there is no record
\* with another URL.
C19_PageRecordsConsecutive ==
    \A i, j \in 1..Len(found_matches) :
        i < j /\ found_matches[i].URL = found_matches[j].URL =>
            \A k \in i..j : found_matches[k].URL = found_matches[i].URL

\* A page has several records, and the records of two pages of one domain
\* have a record of the other domain between them.
C19_Witness ==
    /\ \E i, j \in 1..Len(found_matches) :
           i < j /\ found_matches[i].URL = found_matches[j].URL
    /\ \E i, k, j \in 1..Len(found_matches) :
           /\ i < k /\ k < j
           /\ found_matches[i].URL.host = found_matches[j].URL.host
           /\ found_matches[i].URL # found_matches[j].URL
           /\ found_matches[k].URL.host # found_matches[i].URL.host

-----------------------------------------------------------------------------
(* A body obtained through the scheme fallback *)

\* The body task d is processing came from the fallback URL.
ThroughFallback(d) == html[d] # None /\ html[d] # url[d]

\* The entries a step has added at the end of d's frontier.
Enqueued(d) ==
    ToSet(SubSeq(to_visit'[d], Len(to_visit[d]) + 1, Len(to_visit'[d])))

\* C20: a body obtained through the scheme fallback is processed as the
\* body of the URL that was dequeued: the records carry the dequeued URL,
\* the links are resolved against it and filtered by its host, and the
\* fallback URL is not added to visited: visited only ever holds the URLs
\* that were dequeued themselves.
C20_FallbackBodyUnderOriginalUrl ==
    /\ [](\A d \in DomainSet : visited[d] = ToSet(fetchLog[d]))
    /\ [][run' = run =>
          \A d \in DomainSet :
              /\ pc[d] = "get_fallback" /\ pc'[d] = "search" =>
                     /\ html'[d] = fallback_url(url[d])
                     /\ url'[d] = url[d]
                     /\ visited'[d] = visited[d]
              /\ ThroughFallback(d) /\ lock = d /\ found_matches' # found_matches =>
                     /\ found_matches'[Len(found_matches')].URL = url[d]
                     /\ found_matches'[Len(found_matches')].URL # html[d]
              /\ ThroughFallback(d) /\ pc[d] = "links" /\ pc'[d] = "sleep" =>
                     /\ to_visit'[d] = to_visit[d] \o SubSeq(to_visit'[d], Len(to_visit[d]) + 1, Len(to_visit'[d]))
                     /\ Enqueued(d) =
                            {l \in {StripFragment(urljoin(url[d], a)) : a \in Document(d).anchors} :
                                l.host = url[d].host /\ l \notin visited[d]}
                     /\ visited'[d] = visited[d]
         ]_vars

\* A page was processed with a body obtained through the fallback and has
\* its records, and the fallback URL was later dequeued and requested itself.
C20_Witness ==
    \E d \in DomainSet :
        \E n, m \in 1..Len(pages[d]) :
            /\ n < m
            /\ pages[d][n].body # None
            /\ pages[d][n].body # pages[d][n].url
            /\ \E i \in 1..Len(found_matches) : found_matches[i].URL = pages[d][n].url
            /\ pages[d][m].url = pages[d][n].body
            /\ pages[d][m].url \in visited[d]

====
